---- MODULE Spec2Model ----
(***************************************************************************)
(* Model of the scholarship-notice crawler (src/main.py): the listing      *)
(* crawl (static and browser driven), the Notion transport with its retry  *)
(* loop, and the reconciliation of the crawled records with the Notion     *)
(* database (identity resolution, create/update, retirement of TOP flags). *)
(***************************************************************************)
EXTENDS Integers, Sequences, FiniteSets, TLC

VARIABLES
    \* ---- the source site and the run's input
    mode,             \* "http" | "browser" | "file": which extraction path main takes
    listing,          \* the source: a sequence of listing pages, each a sequence of rows
    \* ---- crawl_top_items / crawl_top_items_http
    pc,               \* position of the run
    page_number,      \* page_number of the crawl loop
    requested,        \* listing pages requested so far, in order
    page_items,       \* page_items of the page being processed
    cursor,           \* position of the `for item in top_items` loop in page_items
    items,            \* items: the records collected so far
    seen,             \* seen: dedup keys
    crawl_end,        \* how the crawl loop ended
    browser,          \* the page the browser session shows and its history behind it
    \* ---- the Notion database (the mirror)
    schema,           \* property name -> type ("missing" when absent)
    options,          \* select options of the author property
    docs,             \* the pages of the database, id = index
    \* ---- main
    run,              \* number of the current run
    database,         \* main's local copy of the schema
    author_options,   \* main's author_options cache
    has_views_property,
    idx,              \* position of `for item in items`
    page_id,          \* result of find_existing_page for items[idx] (0 = None)
    current_top_urls,
    current_top_dates,
    top_pages,        \* pages yielded by iter_top_pages
    tidx,             \* position of the retirement loop in top_pages
    sent,             \* write calls issued to the mirror in this run, in order
    schema0,          \* the mirror's schema when the run started
    docs0,            \* the mirror's pages when the run started
    prev_items,       \* items of the previous completed run (<<>> when none)
    calls,            \* every call issued to the mirror in this run, reads included
    failure,          \* the mirror call that raised, with the responses it received
    \* ---- notion_request
    attempt,          \* loop variable of `for attempt in range(max_retries + 1)`
    backoff,
    responses,        \* the responses received by this call, in order
    sleeps,           \* the sleeps of this call, in order
    result,           \* "pending" | "ok" | "fatal"
    \* ---- the text functions, called on their own
    url_arg,          \* argument of normalize_detail_url
    normalizations,   \* its result, and the result of normalizing that again
    text_arg,         \* argument of parse_datetime, a sequence of characters
    parse_result      \* its result, <<"pending">> before the call

crawlVars  == <<mode, listing, pc, page_number, requested, page_items, cursor,
                items, seen, crawl_end, browser>>
mirrorVars == <<schema, options, docs>>
mainVars   == <<run, database, author_options, has_views_property, idx, page_id,
                current_top_urls, current_top_dates, top_pages, tidx, sent,
                schema0, docs0, prev_items, calls, failure>>
retryVars  == <<attempt, backoff, responses, sleeps, result>>
textVars   == <<url_arg, normalizations, text_arg, parse_result>>
vars       == <<crawlVars, mirrorVars, mainVars, retryVars, textVars>>

-----------------------------------------------------------------------------
(* Bounds of the model                                                     *)

MaxPages    == 3   \* listing pages of the source in the crawl specification
MaxInitDocs == 2   \* pages in the database before the first run
MaxRuns     == 2   \* consecutive runs of main
MaxQuery    == 2   \* pairs in the query string of a URL given to normalize_detail_url
MaxParts    == 3   \* pieces of a text given to parse_datetime

-----------------------------------------------------------------------------
(* Values.  Python's None is a value of the same shape as the present ones: *)
(* NoUrl, NoDate, "" (text), 0 (page id), -1 (views).                      *)

TITLE_PROPERTY  == "Title"
AUTHOR_PROPERTY == "Author"
DATE_PROPERTY   == "Date"
TOP_PROPERTY    == "TOP"
URL_PROPERTY    == "URL"
VIEWS_PROPERTY  == "Views"

\* Query keys, numbered in the order Python sorts their names.
K_bbsConfigFk == 1
K_introPkId   == 2
K_option      == 3
K_page        == 4
QueryKeys     == 1..4

BBS_CONFIG_FK == 141

BaseScheme == "https"
BaseHost   == "www.sogang.ac.kr"

\* A URL: form says how the text is written ("abs": scheme://host/path?query,
\* "protorel": //host/..., "rootrel": /path..., "relative": anything else without
\* scheme or host, "placeholder": # or #/ or javascript:void(0), "badscheme":
\* javascript: mailto: tel: data:, "none": None or the empty text); detail is the
\* number n of a /ko/detail/n path (0: another path); query is the sequence of
\* <<key, value>> pairs, value 0 being the blank value.
NoUrl == [form |-> "none", scheme |-> "", host |-> "", detail |-> 0, query |-> <<>>]

\* A timestamp YYYY-MM-DDThh:mm:ss+09:00: ymd numbers the day, hms the time of day
\* (0: 00:00:00).  NoDate is None.
NoDate == [ymd |-> 0, hms |-> 0]

RECURSIVE KeptQuery(_, _)
KeptQuery(query, k) ==
    \* lines 114-121: keys in sorted order, listing-only keys dropped, blank values
    \* dropped by parse_qs, the values of one key in their order of appearance
    IF k > Cardinality(QueryKeys) THEN <<>>
    ELSE (IF k \in {K_introPkId, K_option, K_page}
          THEN <<>>
          ELSE SelectSeq(query, LAMBDA kv : kv[1] = k /\ kv[2] # 0))
         \o KeptQuery(query, k + 1)

\* normalize_detail_url dropping one listing-only pair of the query per call.
normalize_detail_url_drop_one(raw_url) ==
    IF raw_url.form \in {"none", "placeholder", "badscheme", "relative"}
    THEN NoUrl
    ELSE LET q == raw_url.query
             listing_only(i) == q[i][1] \in {K_introPkId, K_option, K_page}
             first == IF \E i \in 1..Len(q) : listing_only(i)
                      THEN CHOOSE i \in 1..Len(q) :
                               listing_only(i) /\ \A j \in 1..(i - 1) : ~listing_only(j)
                      ELSE 0
         IN  [form   |-> "abs",
              scheme |-> IF raw_url.form = "protorel" THEN "https"
                         ELSE IF raw_url.form = "rootrel" THEN BaseScheme
                         ELSE raw_url.scheme,
              host   |-> IF raw_url.form = "rootrel" THEN BaseHost ELSE raw_url.host,
              detail |-> raw_url.detail,
              query  |-> [i \in 1..(Len(q) - (IF first = 0 THEN 0 ELSE 1)) |->
                              IF first = 0 \/ i < first THEN q[i] ELSE q[i + 1]]]

normalize_detail_url(raw_url) ==
    IF raw_url.form \in {"none", "placeholder", "badscheme", "relative"}
    THEN NoUrl
    ELSE [form   |-> "abs",
          scheme |-> IF raw_url.form = "protorel" THEN "https"
                     ELSE IF raw_url.form = "rootrel" THEN BaseScheme
                     ELSE raw_url.scheme,
          host   |-> IF raw_url.form = "rootrel" THEN BaseHost ELSE raw_url.host,
          detail |-> raw_url.detail,
          query  |-> KeptQuery(raw_url.query, 1)]

is_detail_url(url) ==
    /\ url.form # "none"
    /\ \/ url.detail > 0
       \/ \E i \in 1..Len(url.query) :
              url.query[i][1] = K_bbsConfigFk /\ url.query[i][2] # 0

build_detail_url(detail_id) ==
    [form |-> "abs", scheme |-> BaseScheme, host |-> BaseHost, detail |-> detail_id,
     query |-> << <<K_bbsConfigFk, BBS_CONFIG_FK>> >>]

\* Texts are sequences of one-character strings.  NoTimestamp is None (a timestamp
\* is never the empty text).
NoTimestamp == <<>>

IsDigit(c) == c \in {"0", "1", "2", "3", "4", "5", "6", "7", "8", "9"}

\* (\d{4})[.\-](\d{2})[.\-](\d{2}) matches at position i of the text (line 72).
date_match_at(date_text, i) ==
    /\ i + 9 <= Len(date_text)
    /\ \A k \in {0, 1, 2, 3, 5, 6, 8, 9} : IsDigit(date_text[i + k])
    /\ \A k \in {4, 7} : date_text[i + k] \in {".", "-"}

\* (\d{2}):(\d{2}) matches at position i (line 76), and the optional group
\* (?::(\d{2}))? after it.
time_match_at(date_text, i) ==
    /\ i + 4 <= Len(date_text)
    /\ \A k \in {0, 1, 3, 4} : IsDigit(date_text[i + k])
    /\ date_text[i + 2] = ":"

second_match_at(date_text, i) ==
    /\ i + 7 <= Len(date_text)
    /\ date_text[i + 5] = ":"
    /\ IsDigit(date_text[i + 6]) /\ IsDigit(date_text[i + 7])

\* re.search: the position of the leftmost match from i on, 0 when there is none.
RECURSIVE search_date(_, _)
search_date(date_text, i) ==
    IF i > Len(date_text) THEN 0
    ELSE IF date_match_at(date_text, i) THEN i
    ELSE search_date(date_text, i + 1)

RECURSIVE search_time(_, _)
search_time(date_text, i) ==
    IF i > Len(date_text) THEN 0
    ELSE IF time_match_at(date_text, i) THEN i
    ELSE search_time(date_text, i + 1)

\* parse_datetime that never reads the time of day.
parse_datetime_midnight(date_text) ==
    LET m == search_date(date_text, 1)
    IN  IF m = 0 THEN NoTimestamp
        ELSE SubSeq(date_text, m, m + 3) \o <<"-">> \o SubSeq(date_text, m + 5, m + 6)
             \o <<"-">> \o SubSeq(date_text, m + 8, m + 9)
             \o <<"T", "0", "0", ":", "0", "0", ":", "0", "0", "+", "0", "9", ":", "0", "0">>

parse_datetime(date_text) ==
    LET m  == search_date(date_text, 1)
        tm == search_time(date_text, 1)
        year   == SubSeq(date_text, m, m + 3)
        month  == SubSeq(date_text, m + 5, m + 6)
        day    == SubSeq(date_text, m + 8, m + 9)
        hour   == SubSeq(date_text, tm, tm + 1)
        minute == SubSeq(date_text, tm + 3, tm + 4)
        second == IF second_match_at(date_text, tm)
                  THEN SubSeq(date_text, tm + 6, tm + 7)
                  ELSE <<"0", "0">>
        zone   == <<"+", "0", "9", ":", "0", "0">>
    IN  IF m = 0 THEN NoTimestamp
        ELSE IF tm # 0
        THEN year \o <<"-">> \o month \o <<"-">> \o day \o <<"T">> \o hour \o <<":">>
             \o minute \o <<":">> \o second \o zone
        ELSE year \o <<"-">> \o month \o <<"-">> \o day
             \o <<"T", "0", "0", ":", "0", "0", ":", "0", "0">> \o zone

\* The day key of a timestamp: its YYYY-MM-DD part, 0 standing for "".
normalize_date_key(date_text) ==
    IF date_text = NoDate THEN 0 ELSE date_text.ymd

-----------------------------------------------------------------------------
(* Rows of the source listing.                                             *)
(* ncells: number of cells; top: the first cell reads TOP; date: what       *)
(* parse_datetime makes of the date cell; views: what parse_int makes of    *)
(* the views cell (-1: no digit); href: the row's link; markup_id: a        *)
(* /detail/<n> occurring in the row's markup outside a usable link;         *)
(* data_id: a numeric data-* attribute of the row; click_url: where a click *)
(* on the row navigates; written_at: the timestamp on the detail page.      *)

Item(title, author, date, views, top, url) ==
    [title |-> title, author |-> author, date |-> date, views |-> views,
     top |-> top, url |-> url]

extract_detail_url_from_row_html(row) ==
    LET candidate == normalize_detail_url(row.href)
    IN  IF candidate # NoUrl /\ is_detail_url(candidate) THEN candidate
        ELSE IF row.markup_id > 0
             THEN normalize_detail_url(build_detail_url(row.markup_id))
             ELSE NoUrl

\* parse_rows keeps a row with five cells, a date, a view count and a title.
parse_rows_keeps(row) ==
    /\ row.ncells >= 5
    /\ row.date # NoDate
    /\ row.views # -1
    /\ row.title # ""

RECURSIVE parse_rows(_)
parse_rows(rows) ==
    IF rows = <<>> THEN <<>>
    ELSE LET row == Head(rows)
         IN  (IF parse_rows_keeps(row)
              THEN << [item |-> Item(row.title, row.author, row.date, row.views,
                                     row.top, extract_detail_url_from_row_html(row)),
                       row  |-> row] >>
              ELSE <<>>)
             \o parse_rows(Tail(rows))

\* extract_list_rows keeps a row with five cells, a title and a view count; the
\* item has no "url" yet, its link is carried as detail_url.
extract_list_rows_keeps(row) ==
    /\ row.ncells >= 5
    /\ row.title # ""
    /\ row.views # -1

list_row_detail_url(row) ==
    LET candidate == normalize_detail_url(row.href)
    IN  IF candidate # NoUrl /\ is_detail_url(candidate) THEN candidate ELSE NoUrl

RECURSIVE extract_list_rows_from(_, _)
extract_list_rows_from(rows, index) ==
    IF rows = <<>> THEN <<>>
    ELSE LET row == Head(rows)
         IN  (IF extract_list_rows_keeps(row)
              THEN << [item |-> Item(row.title, row.author, row.date, row.views,
                                     row.top, NoUrl),
                       row  |-> row,
                       row_index |-> index] >>
              ELSE <<>>)
             \o extract_list_rows_from(Tail(rows), index + 1)

extract_list_rows(rows) == extract_list_rows_from(rows, 0)

-----------------------------------------------------------------------------
(* Detail pages.  A network input says how the requests of one detail       *)
(* lookup end: http - the plain request for the detail page succeeds;       *)
(* load - the browser reaches the detail page (goto, or the click and the   *)
(* wait for the detail URL); back - the browser gets back to the listing    *)
(* (history-back or the reload that follows it) before a timeout escapes.   *)
(* The browser session is the page it shows and the pages of its history    *)
(* behind that page, oldest first.                                          *)

BlankPage == [kind |-> "blank", n |-> 0]

\* The listing page of build_list_url(n).
ListPage(n) == [kind |-> "list", n |-> n]

\* The page of a URL that is not a listing page.
UrlPage(url) == [kind |-> IF is_detail_url(url) THEN "detail" ELSE "other", n |-> 0]

\* A new page, also the browser of a crawl that uses none.
NoBrowser == [shown |-> BlankPage, history |-> <<>>]

\* page.goto, or a click that navigates: the page shown goes to the history; a
\* navigation to the URL of the page shown replaces that page.
goto(b, p) ==
    IF b.shown = p THEN b
    ELSE [shown |-> p, history |-> Append(b.history, b.shown)]

\* page.go_back(): the last page of the history is shown again; without history
\* nothing happens.
go_back(b) ==
    IF b.history = <<>> THEN b
    ELSE [shown   |-> b.history[Len(b.history)],
          history |-> SubSeq(b.history, 1, Len(b.history) - 1)]

\* return_to_list_page when it returns: history-back, and the reload of list_url
\* when the row container did not show up in time.
return_to_list_page(b, list_page, net) ==
    LET back == go_back(b)
    IN  IF back.shown.kind = "list" /\ net.direct THEN back ELSE goto(back, list_page)

\* committed - a detail load that timed out had already replaced the page shown;
\* direct - after history-back the row container shows up in time (it can only on
\* a listing page), so that the reload is not needed.
Nets ==
    {net \in [http : BOOLEAN, load : BOOLEAN, back : BOOLEAN, committed : BOOLEAN,
              direct : BOOLEAN] :
        /\ net.load => net.committed
        /\ net.direct => net.back}

\* The network inputs of a lookup of the fetcher of mode m: the plain fetcher
\* sends nothing but the plain request.
ModeNets(m) ==
    IF m = "browser" THEN Nets
    ELSE {net \in Nets : net.load /\ net.back /\ net.direct}

fetch_written_at_from_url(row, http_ok) ==
    IF http_ok THEN row.written_at ELSE NoDate

\* fetch_written_at_via_playwright: the timeout of the detail load is caught, the
\* return to the listing runs in `finally` and its second timeout is not caught.
fetch_written_at_via_playwright(row, net) ==
    [written_at |-> IF net.load THEN row.written_at ELSE NoDate,
     raised     |-> ~net.back]

fetch_detail_for_row(row, detail_url, net) ==
    IF detail_url # NoUrl
    THEN LET norm == normalize_detail_url(detail_url)
             url  == IF norm # NoUrl THEN norm ELSE detail_url
             w    == fetch_written_at_from_url(row, net.http)
             pw   == fetch_written_at_via_playwright(row, net)
         IN  IF w # NoDate
             THEN [written_at |-> w, url |-> url, raised |-> FALSE]
             ELSE [written_at |-> pw.written_at, url |-> url, raised |-> pw.raised]
    ELSE LET id_url == IF row.data_id > 0
                       THEN normalize_detail_url(build_detail_url(row.data_id))
                       ELSE NoUrl
             w      == IF row.data_id > 0
                       THEN fetch_written_at_from_url(row, net.http)
                       ELSE NoDate
             \* wait_for_detail_url: the URL after the click, when it is a detail URL
             reached == net.load /\ is_detail_url(row.click_url)
             norm    == normalize_detail_url(row.click_url)
             nurl    == IF norm # NoUrl THEN norm ELSE row.click_url
         IN  IF w # NoDate
             THEN [written_at |-> w, url |-> id_url, raised |-> FALSE]
             ELSE IF ~reached
             THEN [written_at |-> NoDate, url |-> NoUrl, raised |-> ~net.back]
             ELSE [written_at |-> row.written_at, url |-> nurl, raised |-> ~net.back]

\* The browser session when fetch_detail_for_row returns (it returns when no
\* timeout escapes, net.back): untouched when the plain request gave the
\* timestamp, else after the detail load or the click and the return to the listing.
browser_after(b, list_page, row, detail_url, net) ==
    IF detail_url # NoUrl
    THEN IF fetch_written_at_from_url(row, net.http) # NoDate THEN b
         ELSE return_to_list_page(
                  IF net.load \/ net.committed THEN goto(b, UrlPage(detail_url)) ELSE b,
                  list_page, net)
    ELSE IF row.data_id > 0 /\ fetch_written_at_from_url(row, net.http) # NoDate THEN b
         ELSE return_to_list_page(
                  IF net.load /\ row.click_url # NoUrl
                  THEN goto(b, UrlPage(row.click_url)) ELSE b,
                  list_page, net)

\* The dedup key: item.get("url") or f"{title}|{date}".
DedupKey(item) ==
    IF item.url # NoUrl
    THEN [url |-> item.url, title |-> "", date |-> NoDate]
    ELSE [url |-> NoUrl, title |-> item.title, date |-> item.date]

top_items(p_items) == SelectSeq(p_items, LAMBDA e : e.item.top)

\* has_non_top as a test for a page without any TOP row.
has_non_top_all(p_items) == \A i \in 1..Len(p_items) : ~p_items[i].item.top

has_non_top(p_items) == \E i \in 1..Len(p_items) : ~p_items[i].item.top

\* What the site serves for a page number: past the last page, a page without rows.
PageRows(n) == IF n <= Len(listing) THEN listing[n] ELSE <<>>

\* The items the fetcher of mode m extracts from the rows of a page.
extract_page_in(m, rows) ==
    IF m = "browser" THEN extract_list_rows(rows) ELSE parse_rows(rows)

extract_page(rows) == extract_page_in(mode, rows)

-----------------------------------------------------------------------------
(* crawl_top_items (mode "browser") and crawl_top_items_http (mode "http")  *)

\* page_outcome without the `if not page_items: break` of the loop.
page_outcome_no_empty_break(ok, extracted) == IF ~ok THEN "fetch_failed" ELSE "rows"

\* How one page load ends: the load fails (the timeout caught at lines 474-476, the
\* `if not html_text` of lines 524-526), the page gives no item (lines 480-481,
\* 529-530), or its items are processed.
page_outcome(ok, extracted) ==
    IF ~ok THEN "fetch_failed"
    ELSE IF extracted = <<>> THEN "empty"
    ELSE "rows"

\* One turn of `while True` up to the extraction: the page is requested; a failed
\* load or a page without items ends the loop.
FetchPage ==
    /\ pc = "fetch"
    /\ \E ok \in BOOLEAN :
          LET extracted == extract_page(PageRows(page_number))
              outcome   == page_outcome(ok, extracted)
          IN  /\ requested' = Append(requested, page_number)
              /\ IF outcome # "rows"
                 THEN /\ crawl_end' = outcome
                      /\ pc' = "crawled"
                      /\ browser' = NoBrowser
                      /\ UNCHANGED <<page_items, cursor>>
                 ELSE /\ page_items' = extracted
                      /\ cursor' = 1
                      /\ pc' = "rows"
                      /\ browser' = IF mode = "browser"
                                    THEN goto(browser, ListPage(page_number))
                                    ELSE browser
                      /\ UNCHANGED crawl_end
    /\ UNCHANGED <<mode, listing, page_number, items, seen>>
    /\ UNCHANGED <<mirrorVars, mainVars, retryVars, textVars>>

\* The item of one turn of `for item in top_items` of the fetcher of mode m, after
\* its detail lookup (lines 486-495, 536-539).
detailed_item(m, entry, net) ==
    IF m = "browser"
    THEN LET d == fetch_detail_for_row(entry.row, list_row_detail_url(entry.row), net)
         IN  [item   |-> [entry.item EXCEPT
                            !.date = IF d.written_at # NoDate THEN d.written_at ELSE @,
                            !.url  = IF d.url # NoUrl
                                     THEN normalize_detail_url(d.url) ELSE @],
              raised |-> d.raised]
    ELSE LET w == IF entry.item.url # NoUrl
                  THEN fetch_written_at_from_url(entry.row, net.http)
                  ELSE NoDate
         IN  [item   |-> [entry.item EXCEPT
                            !.date = IF w # NoDate THEN w ELSE @],
              raised |-> FALSE]

\* The item of one turn of `for item in top_items`, after its detail lookup.
DetailedItem(entry, net) == detailed_item(mode, entry, net)

\* Every network-bound step of a detail lookup succeeds.
NetOk == [http |-> TRUE, load |-> TRUE, back |-> TRUE, committed |-> TRUE,
          direct |-> TRUE]

\* `for item in top_items` with every detail lookup succeeding: acc is the items
\* and the seen keys so far.
RECURSIVE collect_top_items(_, _, _)
collect_top_items(m, entries, acc) ==
    IF entries = <<>> THEN acc
    ELSE LET item == detailed_item(m, Head(entries), NetOk).item
             key  == DedupKey(item)
         IN  collect_top_items(m, Tail(entries),
                 IF key \in acc.seen THEN acc
                 ELSE [items |-> Append(acc.items, item),
                       seen  |-> acc.seen \cup {key}])

\* The `while True` of the crawl of mode m from page n on, with every page load
\* succeeding: the items returned.
RECURSIVE crawl_from(_, _, _, _)
crawl_from(m, pages, n, acc) ==
    IF n > Len(pages) THEN acc.items
    ELSE LET extracted == extract_page_in(m, pages[n])
         IN  IF extracted = <<>> THEN acc.items
             ELSE LET after == collect_top_items(m, top_items(extracted), acc)
                  IN  IF has_non_top(extracted) THEN after.items
                      ELSE crawl_from(m, pages, n + 1, after)

\* crawl_top_items ("browser") or crawl_top_items_http ("http") over the pages,
\* with no failing request.
crawl_result(m, pages) == crawl_from(m, pages, 1, [items |-> <<>>, seen |-> {}])

\* The rows of the page the browser shows.
shown_rows(b) == IF b.shown.kind = "list" THEN PageRows(b.shown.n) ELSE <<>>

\* The row fetch_detail_for_row works on: with a detail_url the row the item was
\* read from; without one `rows.nth(row_index)` of the page shown (lines 412-416).
acted_entry(entry, b) ==
    IF mode = "browser" /\ list_row_detail_url(entry.row) = NoUrl
    THEN [entry EXCEPT !.row = [shown_rows(b)[entry.row_index + 1]
                                    EXCEPT !.href = NoUrl]]
    ELSE entry

\* `if row_index >= rows.count(): return None, None`
row_missing(entry, b) ==
    /\ mode = "browser"
    /\ list_row_detail_url(entry.row) = NoUrl
    /\ entry.row_index >= Len(shown_rows(b))

\* One turn of `for item in top_items`.
DetailRow ==
    /\ pc = "rows"
    /\ cursor <= Len(top_items(page_items))
    /\ \E net \in ModeNets(mode) :
          LET entry == top_items(page_items)[cursor]
              missing == row_missing(entry, browser)
              acted == IF missing THEN entry ELSE acted_entry(entry, browser)
              d == IF missing THEN [item |-> entry.item, raised |-> FALSE]
                   ELSE DetailedItem(acted, net)
              key == DedupKey(d.item)
          IN  IF d.raised
              THEN /\ pc' = "crashed"
                   /\ browser' = NoBrowser
                   /\ UNCHANGED <<items, seen, cursor>>
              ELSE /\ pc' = pc
                   /\ cursor' = cursor + 1
                   /\ browser' = IF mode # "browser" \/ missing THEN browser
                                 ELSE browser_after(browser, ListPage(page_number),
                                          acted.row, list_row_detail_url(acted.row),
                                          net)
                   /\ IF key \in seen
                      THEN UNCHANGED <<items, seen>>
                      ELSE /\ seen' = seen \cup {key}
                           /\ items' = Append(items, d.item)
    /\ UNCHANGED <<mode, listing, page_number, requested, page_items, crawl_end>>
    /\ UNCHANGED <<mirrorVars, mainVars, retryVars, textVars>>

\* The end of one turn of `while True`: stop at a page with a non-TOP item.
EndPage ==
    /\ pc = "rows"
    /\ cursor > Len(top_items(page_items))
    /\ IF has_non_top(page_items)
       THEN /\ crawl_end' = "non_top"
            /\ pc' = "crawled"
            /\ browser' = NoBrowser
            /\ UNCHANGED page_number
       ELSE /\ page_number' = page_number + 1
            /\ pc' = "fetch"
            /\ UNCHANGED <<crawl_end, browser>>
    /\ UNCHANGED <<mode, listing, requested, page_items, cursor, items, seen>>
    /\ UNCHANGED <<mirrorVars, mainVars, retryVars, textVars>>

-----------------------------------------------------------------------------
(* notion_request: one call, one action per turn of its loop.              *)
(* A response is its HTTP status (0: no response, urllib's URLError) and    *)
(* its Retry-After header (-1: absent or not a number).                     *)

max_retries == 3

Statuses == {200, 0, 400, 404, 409, 429, 500, 501, 502, 503, 504, 599}

Responses ==
    [code : Statuses, retry_after : {-1}]
        \cup [code : {429, 500, 502, 503, 504}, retry_after : {0, 5}]

retryable(code) == code \in {429, 500, 502, 503, 504}

\* may_retry with the comparison off by one.
may_retry_off_by_one(n) == n <= max_retries

may_retry(n) == n < max_retries

Min(a, b) == IF a <= b THEN a ELSE b

\* next_backoff growing by one instead of doubling.
next_backoff_linear(b) == Min(b + 1, 8)

next_backoff(b) == Min(b * 2, 8)

\* The answers the mirror would give to the requests 1..4 of one call (0: no
\* response, a URLError); the call consumes as many as its loop sends.
CallScripts ==
    { <<200, 200, 200, 200>>, <<429, 200, 200, 200>>, <<503, 0, 429, 200>>,
      <<400, 200, 200, 200>>, <<429, 404, 200, 200>>, <<429, 429, 429, 429>>,
      <<0, 500, 502, 504>> }

\* notion_request as a function of the answers: whether it returns, and the
\* responses it received (one per request sent); `n + 1 <= max_retries` is the
\* end of `for attempt in range(max_retries + 1)`.
RECURSIVE request_loop(_, _)
request_loop(script, n) ==
    LET code == script[n + 1]
    IN  IF code = 200
        THEN [ok |-> TRUE, responses |-> SubSeq(script, 1, n + 1)]
        ELSE IF (code = 0 \/ retryable(code)) /\ may_retry(n) /\ n + 1 <= max_retries
        THEN request_loop(script, n + 1)
        ELSE [ok |-> FALSE, responses |-> SubSeq(script, 1, n + 1)]

notion_request(script) == request_loop(script, 0)

NoFailure == [op |-> "", responses |-> <<>>]

\* What main keeps of a call that raised: nothing catches the RuntimeError.
Failure(op, r) ==
    IF r.ok THEN NoFailure ELSE [op |-> op, responses |-> r.responses]

\* after_call with the error of the call swallowed.
after_call_swallowed(ok, next_pc) == next_pc

\* Where main goes after a mirror call: on, or out with the RuntimeError.
after_call(ok, next_pc) == IF ok THEN next_pc ELSE "fatal"

NotionAttempt ==
    /\ pc = "request"
    /\ result = "pending"
    /\ attempt <= max_retries                  \* range(max_retries + 1)
    /\ \E resp \in Responses :
          /\ responses' = Append(responses, resp)
          /\ IF resp.code = 200
             THEN /\ result' = "ok"
                  /\ UNCHANGED <<attempt, backoff, sleeps>>
             ELSE IF resp.code # 0
             THEN \* urllib.error.HTTPError
                  IF retryable(resp.code) /\ may_retry(attempt)
                  THEN /\ sleeps' = Append(sleeps, IF resp.retry_after >= 0
                                                   THEN resp.retry_after ELSE backoff)
                       /\ backoff' = next_backoff(backoff)
                       /\ attempt' = attempt + 1
                       /\ UNCHANGED result
                  ELSE /\ result' = "fatal"
                       /\ UNCHANGED <<attempt, backoff, sleeps>>
             ELSE \* urllib.error.URLError
                  IF may_retry(attempt)
                  THEN /\ sleeps' = Append(sleeps, backoff)
                       /\ backoff' = next_backoff(backoff)
                       /\ attempt' = attempt + 1
                       /\ UNCHANGED result
                  ELSE /\ result' = "fatal"
                       /\ UNCHANGED <<attempt, backoff, sleeps>>
    /\ UNCHANGED <<crawlVars, mirrorVars, mainVars, textVars>>

-----------------------------------------------------------------------------
(* The Notion database as the calls of main see it.                        *)
(* A page is [title, date, url, top, author, views], its id is its index in *)
(* docs.  A filter with `equals` selects the pages whose stored value is    *)
(* the given one.                                                          *)

RequiredProperties ==
    {TITLE_PROPERTY, TOP_PROPERTY, DATE_PROPERTY, AUTHOR_PROPERTY, URL_PROPERTY}

\* The type validate_required_properties / ensure_url_property expect.
expected_type(property_name) ==
    CASE property_name = TITLE_PROPERTY  -> "title"
      [] property_name = TOP_PROPERTY    -> "checkbox"
      [] property_name = DATE_PROPERTY   -> "date"
      [] property_name = AUTHOR_PROPERTY -> "select"
      [] property_name = URL_PROPERTY    -> "url"
      [] property_name = VIEWS_PROPERTY  -> "number"

\* query_database with the filter {URL equals detail_url}
query_by_url(pages, detail_url) ==
    {i \in 1..Len(pages) : pages[i].url = detail_url}

\* query_database with the filter {title equals title AND date equals date_iso}
query_by_title_date(pages, title, date_iso) ==
    {i \in 1..Len(pages) : pages[i].title = title /\ pages[i].date = date_iso}

\* query_database with the filter {title equals title}
query_by_title(pages, title) ==
    {i \in 1..Len(pages) : pages[i].title = title}

TheOne(S) == CHOOSE i \in S : TRUE

\* find_existing_page taking the first result of the URL query whatever their number.
find_existing_page_first_result(pages, detail_url, title, date_iso) ==
    LET by_url == query_by_url(pages, detail_url)
        by_td  == query_by_title_date(pages, title, date_iso)
        by_t   == query_by_title(pages, title)
    IN  IF detail_url # NoUrl /\ by_url # {} THEN TheOne(by_url)
        ELSE IF title # "" /\ date_iso # NoDate /\ by_td # {} THEN TheOne(by_td)
        ELSE IF title # "" /\ by_t # {} THEN TheOne(by_t)
        ELSE 0

\* find_existing_page: the id of the page found, 0 for None.
find_existing_page(pages, detail_url, title, date_iso) ==
    LET by_url == query_by_url(pages, detail_url)
        by_td  == query_by_title_date(pages, title, date_iso)
        by_t   == query_by_title(pages, title)
    IN  IF detail_url # NoUrl /\ Cardinality(by_url) = 1 THEN TheOne(by_url)
        ELSE IF detail_url # NoUrl /\ Cardinality(by_url) > 1 THEN 0
        ELSE IF title # "" /\ date_iso # NoDate /\ Cardinality(by_td) = 1
        THEN TheOne(by_td)
        ELSE IF title # "" /\ date_iso # NoDate /\ Cardinality(by_td) > 1 THEN 0
        ELSE IF title # "" /\ Cardinality(by_t) = 1 THEN TheOne(by_t)
        ELSE 0

\* build_properties writing the date, empty or not.
build_properties_date_always(item, has_views) ==
    [fields |-> {TITLE_PROPERTY, TOP_PROPERTY, DATE_PROPERTY}
                \cup (IF item.author # "" THEN {AUTHOR_PROPERTY} ELSE {})
                \cup (IF has_views /\ item.views # -1 THEN {VIEWS_PROPERTY} ELSE {})
                \cup (IF item.url # NoUrl THEN {URL_PROPERTY} ELSE {}),
     values |-> item]

\* build_properties: the properties written, and the values of those it names.
build_properties(item, has_views) ==
    [fields |-> {TITLE_PROPERTY, TOP_PROPERTY}
                \cup (IF item.date # NoDate THEN {DATE_PROPERTY} ELSE {})
                \cup (IF item.author # "" THEN {AUTHOR_PROPERTY} ELSE {})
                \cup (IF has_views /\ item.views # -1 THEN {VIEWS_PROPERTY} ELSE {})
                \cup (IF item.url # NoUrl THEN {URL_PROPERTY} ELSE {}),
     values |-> item]

\* The page a write of `properties` leaves: the named properties take the written
\* values, the others keep theirs.
apply_properties(page, properties) ==
    [title  |-> IF TITLE_PROPERTY \in properties.fields
                THEN properties.values.title ELSE page.title,
     top    |-> IF TOP_PROPERTY \in properties.fields
                THEN properties.values.top ELSE page.top,
     date   |-> IF DATE_PROPERTY \in properties.fields
                THEN properties.values.date ELSE page.date,
     author |-> IF AUTHOR_PROPERTY \in properties.fields
                THEN properties.values.author ELSE page.author,
     views  |-> IF VIEWS_PROPERTY \in properties.fields
                THEN properties.values.views ELSE page.views,
     url    |-> IF URL_PROPERTY \in properties.fields
                THEN properties.values.url ELSE page.url]

EmptyPage == Item("", "", NoDate, -1, FALSE, NoUrl)

\* extract_url / extract_title / extract_date of a page read from the database
extract_url(page) == normalize_detail_url(page.url)

extract_title(page) == page.title

extract_date(page) == page.date

\* should_disable without the lookup of the title and day key.
should_disable_url_only(page, top_urls, top_dates) ==
    LET page_url == extract_url(page)
        title    == extract_title(page)
    IN  /\ ~(page_url # NoUrl /\ top_urls # {} /\ page_url \in top_urls)
        /\ title # ""

\* disable_missing_top, lines 899-910: whether the page is un-TOPped
should_disable(page, top_urls, top_dates) ==
    LET page_url == extract_url(page)
        title    == extract_title(page)
        date_key == normalize_date_key(extract_date(page))
    IN  /\ ~(page_url # NoUrl /\ top_urls # {} /\ page_url \in top_urls)
        /\ title # ""
        /\ ~(<<title, date_key>> \in top_dates)

\* A select option: its name and its id (0: the option carries no id yet).
Option(name, id) == [name |-> name, id |-> id]

\* sanitize_select_options: the named options, each with its name and id.
sanitize_select_options(opts) == {o \in opts : o.name # ""}

\* ensure_select_option returns the cache as it is for an empty name and for a
\* name among the sanitized options.
option_known(options_cache, option_name) ==
    \/ option_name = ""
    \/ option_name \in {o.name : o \in sanitize_select_options(options_cache)}

\* updated_options sent without the options the cache already holds.
updated_options_new_only(options_cache, option_name) == {Option(option_name, 0)}

\* updated_options = sanitized_options + [{"name": option_name}]
updated_options(options_cache, option_name) ==
    sanitize_select_options(options_cache) \cup {Option(option_name, 0)}

\* The mirror replaces the options of the property by those sent and gives an id
\* to an option sent without one.
stored_options(sent_options) ==
    {IF o.id # 0 THEN o ELSE Option(o.name, Cardinality(sent_options))
       : o \in sent_options}

\* A write call issued to the mirror: op is "schema" (update_database), "create"
\* (create_page), "update" (update_page from the record loop) or "retire"
\* (update_page from disable_missing_top); item is the position of the record in
\* items (0: none), doc the id of the page addressed (0: none), options the select
\* options an update of the author property carries.
Call(op, item, doc, fields) ==
    [op |-> op, item |-> item, doc |-> doc, fields |-> fields, options |-> {}]

-----------------------------------------------------------------------------
(* main                                                                    *)

NoDatabase == [properties |-> [p \in {} |-> ""], options |-> {}]

\* The type of a property of a database object, "missing" when it has none.
property_type(db, property_name) ==
    IF property_name \in DOMAIN db.properties
    THEN db.properties[property_name] ELSE "missing"

\* require_property_type does not raise
has_required_type(db, property_name) ==
    property_type(db, property_name) = expected_type(property_name)

\* validate_required_properties without the check of the date property.
validate_required_properties_no_date(db) ==
    \A property_name \in RequiredProperties \ {DATE_PROPERTY} :
        has_required_type(db, property_name)

validate_required_properties(db) ==
    \A property_name \in RequiredProperties : has_required_type(db, property_name)

validate_optional_property_type(db, property_name) ==
    property_type(db, property_name) = expected_type(property_name)

\* items = parse_rows(html_text) of a saved listing page (lines 938-942)
ReadFile ==
    /\ pc = "file"
    /\ items' = [i \in 1..Len(parse_rows(PageRows(1))) |->
                    parse_rows(PageRows(1))[i].item]
    /\ crawl_end' = "file"
    /\ pc' = "crawled"
    /\ UNCHANGED <<mode, listing, page_number, requested, page_items, cursor, seen>>
    /\ UNCHANGED <<mirrorVars, mainVars, retryVars, textVars, browser>>

\* no_items without the test: main goes on with an empty list.
no_items_unchecked(its) == FALSE

\* `if not items` (line 946)
no_items(its) == its = <<>>

\* if not items: raise RuntimeError (lines 946-947)
CheckItems ==
    /\ pc = "crawled"
    /\ pc' = IF no_items(items) THEN "fatal" ELSE "fetch_db"
    /\ UNCHANGED <<mode, listing, page_number, requested, page_items, cursor, items,
                   seen, crawl_end>>
    /\ UNCHANGED <<mirrorVars, mainVars, retryVars, textVars, browser>>

\* database = fetch_database(...) (line 949)
FetchDatabase ==
    /\ pc = "fetch_db"
    /\ \E script \in CallScripts :
          LET r == notion_request(script)
          IN  /\ calls' = Append(calls, "fetch_database")
              /\ failure' = Failure("fetch_database", r)
              /\ pc' = after_call(r.ok, "ensure_url")
              /\ IF r.ok
                 THEN database' = [properties |-> schema, options |-> options]
                 ELSE UNCHANGED database
    /\ UNCHANGED <<mode, listing, page_number, requested, page_items, cursor, items,
                   seen, crawl_end>>
    /\ UNCHANGED <<run, author_options, has_views_property, idx, page_id,
                   current_top_urls, current_top_dates, top_pages, tidx, sent,
                   schema0, docs0, prev_items>>
    /\ UNCHANGED <<mirrorVars, retryVars, textVars, browser>>

\* database = ensure_url_property(...) (line 950, lines 641-648)
EnsureUrlProperty ==
    /\ pc = "ensure_url"
    /\ IF property_type(database, URL_PROPERTY) # "missing"
       THEN /\ pc' = IF property_type(database, URL_PROPERTY) # "url"
                     THEN "fatal" ELSE "validate"
            /\ UNCHANGED <<database, schema, sent, calls, failure>>
       ELSE /\ sent' = Append(sent, Call("schema", 0, 0, {URL_PROPERTY}))
            /\ calls' = Append(calls, "update_database")
            /\ \E script \in CallScripts :
                  LET r == notion_request(script)
                  IN  /\ failure' = Failure("update_database", r)
                      /\ pc' = after_call(r.ok, "validate")
                      /\ IF r.ok
                         THEN /\ schema' = (URL_PROPERTY :> "url") @@ schema
                              /\ database' = [properties |-> schema',
                                              options |-> options]
                         ELSE UNCHANGED <<database, schema>>
    /\ UNCHANGED <<mode, listing, page_number, requested, page_items, cursor, items,
                   seen, crawl_end>>
    /\ UNCHANGED <<run, author_options, has_views_property, idx, page_id,
                   current_top_urls, current_top_dates, top_pages, tidx,
                   schema0, docs0, prev_items>>
    /\ UNCHANGED <<options, docs, retryVars, textVars, browser>>

\* lines 951-959
ValidateRequired ==
    /\ pc = "validate"
    /\ IF validate_required_properties(database)
       THEN /\ author_options' = database.options
            /\ has_views_property' =
                   validate_optional_property_type(database, VIEWS_PROPERTY)
            /\ current_top_urls' = {}
            /\ current_top_dates' = {}
            /\ idx' = 1
            /\ pc' = IF items = <<>> THEN "retire_query" ELSE "item"
       ELSE /\ pc' = "fatal"
            /\ UNCHANGED <<author_options, has_views_property, current_top_urls,
                           current_top_dates, idx>>
    /\ UNCHANGED <<mode, listing, page_number, requested, page_items, cursor, items,
                   seen, crawl_end>>
    /\ UNCHANGED <<run, database, page_id, top_pages, tidx, sent, schema0, docs0,
                   prev_items, calls, failure>>
    /\ UNCHANGED <<mirrorVars, retryVars, textVars, browser>>

\* The first part of one turn of `for item in items` (lines 961-977): the observed
\* sets, then ensure_select_option.
ItemBegin ==
    /\ pc = "item"
    /\ LET item       == items[idx]
           normalized == normalize_detail_url(item.url)
           known      == option_known(author_options, item.author)
           updated    == updated_options(author_options, item.author)
       IN  /\ items' = [items EXCEPT ![idx].url =
                           IF normalized # NoUrl THEN normalized ELSE @]
           /\ current_top_urls' = IF normalized # NoUrl
                                  THEN current_top_urls \cup {normalized}
                                  ELSE current_top_urls
           /\ current_top_dates' = current_top_dates
                   \cup {<<item.title, normalize_date_key(item.date)>>}
           /\ IF known
              THEN /\ pc' = "find"
                   /\ UNCHANGED <<sent, options, author_options, calls, failure>>
              ELSE /\ sent' = Append(sent, [Call("schema", idx, 0, {AUTHOR_PROPERTY})
                                               EXCEPT !.options = updated])
                   /\ calls' = Append(calls, "update_database")
                   /\ \E script \in CallScripts :
                         LET r == notion_request(script)
                         IN  /\ failure' = Failure("update_database", r)
                             /\ pc' = after_call(r.ok, "find")
                             /\ IF r.ok
                                THEN /\ options' = stored_options(updated)
                                     /\ author_options' = options'
                                ELSE UNCHANGED <<options, author_options>>
    /\ UNCHANGED <<mode, listing, page_number, requested, page_items, cursor, seen,
                   crawl_end>>
    /\ UNCHANGED <<run, database, has_views_property, idx, page_id, top_pages, tidx,
                   schema0, docs0, prev_items>>
    /\ UNCHANGED <<schema, docs, retryVars, textVars, browser>>

\* The queries find_existing_page sends, in order: a tier is queried when its
\* inputs are there and no tier before it returned a result.
tier_queries(pages, detail_url, title, date_iso) ==
    LET use_url == detail_url # NoUrl
        end_url == use_url /\ query_by_url(pages, detail_url) # {}
        use_td  == ~end_url /\ title # "" /\ date_iso # NoDate
        end_td  == use_td /\ query_by_title_date(pages, title, date_iso) # {}
        use_t   == ~end_url /\ ~end_td /\ title # ""
    IN  (IF use_url THEN <<"query_database">> ELSE <<>>)
        \o (IF use_td THEN <<"query_database">> ELSE <<>>)
        \o (IF use_t THEN <<"query_database">> ELSE <<>>)

\* page_id = find_existing_page(...) (lines 979-985)
FindExisting ==
    /\ pc = "find"
    /\ LET queries == tier_queries(docs, items[idx].url, items[idx].title,
                                   items[idx].date)
           found   == find_existing_page(docs, items[idx].url, items[idx].title,
                                         items[idx].date)
       IN  IF queries = <<>>
           THEN /\ page_id' = found
                /\ pc' = "write"
                /\ UNCHANGED <<calls, failure>>
           ELSE \E script \in CallScripts, last \in 1..Len(queries) :
                   LET r == notion_request(script)
                   IN  /\ calls' = calls \o (IF r.ok THEN queries
                                             ELSE SubSeq(queries, 1, last))
                       /\ failure' = Failure("query_database", r)
                       /\ pc' = after_call(r.ok, "write")
                       /\ page_id' = IF r.ok THEN found ELSE page_id
    /\ UNCHANGED <<mode, listing, page_number, requested, page_items, cursor, items,
                   seen, crawl_end>>
    /\ UNCHANGED <<run, database, author_options, has_views_property, idx,
                   current_top_urls, current_top_dates, top_pages, tidx, sent,
                   schema0, docs0, prev_items>>
    /\ UNCHANGED <<mirrorVars, retryVars, textVars, browser>>

\* write_call with the branches of `if page_id` exchanged.
write_call_swapped(found_id, item_index, fields) ==
    IF found_id = 0
    THEN Call("update", item_index, found_id, fields)
    ELSE Call("create", item_index, 0, fields)

\* `if page_id: update_page(...) else: create_page(...)` (lines 986-993)
write_call(found_id, item_index, fields) ==
    IF found_id # 0
    THEN Call("update", item_index, found_id, fields)
    ELSE Call("create", item_index, 0, fields)

\* after_write entering the retirement pass after every record.
after_write_retire_each(item_index, n) == "retire_query"

\* Where main goes after the write of record item_index of n: the next turn of
\* `for item in items`, or disable_missing_top after the loop (lines 960, 996).
after_write(item_index, n) == IF item_index < n THEN "item" ELSE "retire_query"

\* The write of one turn of `for item in items` (lines 978, 986-993)
WritePage ==
    /\ pc = "write"
    /\ LET properties == build_properties(items[idx], has_views_property)
           call       == write_call(page_id, idx, properties.fields)
       IN  /\ sent' = Append(sent, call)
           /\ calls' = Append(calls, call.op \o "_page")
           /\ \E script \in CallScripts :
                 LET r == notion_request(script)
                 IN  /\ failure' = Failure(call.op \o "_page", r)
                     /\ pc' = after_call(r.ok, after_write(idx, Len(items)))
                     /\ IF r.ok
                        THEN /\ docs' = IF page_id # 0
                                        THEN [docs EXCEPT ![page_id] =
                                                 apply_properties(@, properties)]
                                        ELSE Append(docs, apply_properties(EmptyPage,
                                                                           properties))
                             /\ idx' = idx + 1
                        ELSE UNCHANGED <<docs, idx>>
    /\ UNCHANGED <<mode, listing, page_number, requested, page_items, cursor, items,
                   seen, crawl_end>>
    /\ UNCHANGED <<run, database, author_options, has_views_property, page_id,
                   current_top_urls, current_top_dates, top_pages, tidx,
                   schema0, docs0, prev_items>>
    /\ UNCHANGED <<schema, options, retryVars, textVars, browser>>

RECURSIVE TopIds(_, _)
TopIds(pages, i) ==
    IF i > Len(pages) THEN <<>>
    ELSE (IF pages[i].top THEN <<i>> ELSE <<>>) \o TopIds(pages, i + 1)

\* iter_top_pages: the query for the pages with TOP checked (lines 874-887)
IterTopPages ==
    /\ pc = "retire_query"
    /\ \E script \in CallScripts :
          LET r == notion_request(script)
          IN  /\ calls' = Append(calls, "query_database")
              /\ failure' = Failure("query_database", r)
              /\ pc' = after_call(r.ok, "retire")
              /\ IF r.ok
                 THEN /\ top_pages' = TopIds(docs, 1)
                      /\ tidx' = 1
                 ELSE UNCHANGED <<top_pages, tidx>>
    /\ UNCHANGED <<mode, listing, page_number, requested, page_items, cursor, items,
                   seen, crawl_end>>
    /\ UNCHANGED <<run, database, author_options, has_views_property, idx, page_id,
                   current_top_urls, current_top_dates, sent, schema0, docs0,
                   prev_items>>
    /\ UNCHANGED <<mirrorVars, retryVars, textVars, browser>>

\* retire_properties sending the whole page again, without its date.
retire_properties_rewrite(page) ==
    [fields |-> {TITLE_PROPERTY, TOP_PROPERTY, DATE_PROPERTY},
     values |-> [page EXCEPT !.top = FALSE, !.date = NoDate]]

\* The properties of the retirement request: {TOP_PROPERTY: {"checkbox": False}}
\* (line 911).
retire_properties(page) ==
    [fields |-> {TOP_PROPERTY}, values |-> [page EXCEPT !.top = FALSE]]

\* One turn of `for page in iter_top_pages(...)` (lines 897-913)
RetireStep ==
    /\ pc = "retire"
    /\ tidx <= Len(top_pages)
    /\ LET id == top_pages[tidx]
       IN  IF should_disable(docs[id], current_top_urls, current_top_dates)
           THEN /\ sent' = Append(sent, Call("retire", 0, id,
                                              retire_properties(docs[id]).fields))
                /\ calls' = Append(calls, "update_page")
                /\ \E script \in CallScripts :
                      LET r == notion_request(script)
                      IN  /\ failure' = Failure("update_page", r)
                          /\ pc' = after_call(r.ok, pc)
                          /\ IF r.ok
                             THEN /\ docs' = [docs EXCEPT ![id] =
                                              apply_properties(@, retire_properties(@))]
                                  /\ tidx' = tidx + 1
                             ELSE UNCHANGED <<docs, tidx>>
           ELSE /\ tidx' = tidx + 1
                /\ UNCHANGED <<docs, sent, pc, calls, failure>>
    /\ UNCHANGED <<mode, listing, page_number, requested, page_items, cursor, items,
                   seen, crawl_end>>
    /\ UNCHANGED <<run, database, author_options, has_views_property, idx, page_id,
                   current_top_urls, current_top_dates, top_pages,
                   schema0, docs0, prev_items>>
    /\ UNCHANGED <<schema, options, retryVars, textVars, browser>>

\* disable_missing_top returns; main ends (lines 914, 997-1001)
RetireDone ==
    /\ pc = "retire"
    /\ tidx > Len(top_pages)
    /\ pc' = "done"
    /\ UNCHANGED <<mode, listing, page_number, requested, page_items, cursor, items,
                   seen, crawl_end>>
    /\ UNCHANGED <<mirrorVars, mainVars, retryVars, textVars, browser>>

\* The program is started again on the same source.
StartRun ==
    /\ pc = "done"
    /\ run < MaxRuns
    /\ run' = run + 1
    /\ prev_items' = items
    /\ schema0' = schema
    /\ docs0' = docs
    /\ pc' = IF mode = "file" THEN "file" ELSE "fetch"
    /\ page_number' = 1
    /\ requested' = <<>>
    /\ page_items' = <<>>
    /\ cursor' = 1
    /\ items' = <<>>
    /\ seen' = {}
    /\ crawl_end' = "none"
    /\ database' = NoDatabase
    /\ author_options' = {}
    /\ has_views_property' = FALSE
    /\ idx' = 1
    /\ page_id' = 0
    /\ current_top_urls' = {}
    /\ current_top_dates' = {}
    /\ top_pages' = <<>>
    /\ tidx' = 1
    /\ sent' = <<>>
    /\ calls' = <<>>
    /\ failure' = NoFailure
    /\ UNCHANGED <<mode, listing, mirrorVars, retryVars, textVars, browser>>

-----------------------------------------------------------------------------
(* The inputs the specifications draw from.                                *)

\* normalize_detail_url called on the URL, then on its own result.
Normalize ==
    /\ pc = "normalize"
    /\ Len(normalizations) < 2
    /\ normalizations' = Append(normalizations,
           normalize_detail_url(IF normalizations = <<>> THEN url_arg
                                ELSE normalizations[Len(normalizations)]))
    /\ UNCHANGED <<url_arg, text_arg, parse_result>>
    /\ UNCHANGED <<crawlVars, mirrorVars, mainVars, retryVars>>

\* parse_datetime called on the text.
ParseDatetime ==
    /\ pc = "parse"
    /\ parse_result = <<"pending">>
    /\ parse_result' = parse_datetime(text_arg)
    /\ UNCHANGED <<url_arg, normalizations, text_arg>>
    /\ UNCHANGED <<crawlVars, mirrorVars, mainVars, retryVars>>

Seqs(S, n) == UNION {[1..k -> S] : k \in 0..n}

Date(ymd, hms) == [ymd |-> ymd, hms |-> hms]

\* href="/ko/detail/1?page=2&bbsConfigFk=141"
HrefA ==
    [form |-> "rootrel", scheme |-> "", host |-> "", detail |-> 1,
     query |-> << <<K_page, 2>>, <<K_bbsConfigFk, BBS_CONFIG_FK>> >>]

\* A TOP row with a link and a detail page that carries the time of day.
RowA ==
    [ncells |-> 5, top |-> TRUE, title |-> "T1", author |-> "A1",
     date |-> Date(1, 0), views |-> 10, href |-> HrefA, markup_id |-> 0,
     data_id |-> 0, click_url |-> build_detail_url(1), written_at |-> Date(1, 1)]

\* A TOP row without a link; its detail page shows no timestamp.
RowB ==
    [ncells |-> 5, top |-> TRUE, title |-> "T2", author |-> "A2",
     date |-> Date(2, 0), views |-> 20, href |-> NoUrl, markup_id |-> 0,
     data_id |-> 0, click_url |-> build_detail_url(2), written_at |-> NoDate]

\* A TOP row whose date cell does not parse, without link or detail page.
RowC ==
    [ncells |-> 5, top |-> TRUE, title |-> "T1", author |-> "",
     date |-> NoDate, views |-> 5, href |-> NoUrl, markup_id |-> 0,
     data_id |-> 0, click_url |-> NoUrl, written_at |-> NoDate]

\* A TOP row with a detail identifier in its markup and in a data-* attribute.
RowD ==
    [ncells |-> 5, top |-> TRUE, title |-> "T2", author |-> "A1",
     date |-> Date(1, 0), views |-> 3, href |-> NoUrl, markup_id |-> 2,
     data_id |-> 2, click_url |-> build_detail_url(2), written_at |-> Date(2, 1)]

\* A regular (non-TOP) row.
RowN ==
    [ncells |-> 5, top |-> FALSE, title |-> "T2", author |-> "A2",
     date |-> Date(2, 0), views |-> 7, href |-> build_detail_url(4), markup_id |-> 0,
     data_id |-> 0, click_url |-> build_detail_url(4), written_at |-> Date(2, 1)]

\* A row with four cells.
RowBad == [RowA EXCEPT !.ncells = 4]

\* A TOP row with the title of RowA, another link and another day.
RowE ==
    [RowA EXCEPT !.date = Date(2, 0), !.href = build_detail_url(3),
                 !.click_url = build_detail_url(3), !.written_at = Date(2, 1)]

CrawlPages ==
    {<<RowA>>, <<RowD>>, <<RowA, RowB>>, <<RowC, RowA>>, <<RowB, RowN>>, <<RowN>>,
     <<RowBad>>}

CrawlListings == Seqs(CrawlPages, MaxPages)

\* The listings of the runs of main: one or two pages of TOP rows, the last one
\* with or without a regular row.
MainListings ==
    {<< <<RowA, RowN>> >>,
     << <<RowB, RowN>> >>,
     << <<RowB, RowC>> >>,
     << <<RowA>>, <<RowB, RowN>> >>,
     << <<RowA>>, <<RowA, RowN>> >>,
     << <<RowB, RowC>>, <<RowA, RowN>> >>}

\* The saved listing pages of the runs of main that read a file.
MainFiles ==
    {<< <<RowA, RowN>> >>, << <<RowB, RowC>> >>, << <<RowB, RowN>> >>,
     << <<RowA, RowE>> >>}

DocA == Item("T1", "A1", Date(1, 1), 10, TRUE, build_detail_url(1))

DocT == Item("T1", "", NoDate, -1, TRUE, NoUrl)

DocB == Item("T2", "A2", Date(2, 0), 20, TRUE, NoUrl)

DocX == Item("", "", NoDate, -1, TRUE, build_detail_url(2))

DocPool == {DocA, DocT, DocB, DocX}

\* A page with the title of DocA, a timestamp on another day and no URL.
DocE == Item("T1", "A1", Date(2, 1), 10, TRUE, NoUrl)

\* The pages of the mirror find_existing_page is checked on.
ResolvePool == DocPool \cup {DocE}

\* The records find_existing_page is checked on: those of the rows as extracted,
\* and with the timestamp of the detail page.
ResolveRecords ==
    LET extracted == {parse_rows(<<row>>)[1].item : row \in {RowA, RowB, RowE, RowN}}
                     \cup {extract_list_rows(<<RowC>>)[1].item}
    IN  extracted
        \cup {[item EXCEPT !.date = Date(item.date.ymd, 1)] :
                 item \in {i \in extracted : i.date # NoDate}}
        \cup {[item EXCEPT !.url = NoUrl] : item \in extracted}

RightSchema ==
    [p \in RequiredProperties \cup {VIEWS_PROPERTY} |-> expected_type(p)]

Without(s, p) == [q \in DOMAIN s \ {p} |-> s[q]]

Mistyped(s, p) == [s EXCEPT ![p] = "rich_text"]

\* Schemas main accepts: the right one, the views property absent or of another
\* type, the URL property absent.
AcceptedSchemas ==
    {RightSchema, Without(RightSchema, VIEWS_PROPERTY),
     Mistyped(RightSchema, VIEWS_PROPERTY), Without(RightSchema, URL_PROPERTY)}

\* Schemas with one required property absent or of another type, with or without
\* the URL property.
RejectedSchemas ==
    {Mistyped(RightSchema, URL_PROPERTY)}
    \cup {Without(s, p) : s \in {RightSchema, Without(RightSchema, URL_PROPERTY)},
                          p \in RequiredProperties \ {URL_PROPERTY}}
    \cup {Mistyped(s, p) : s \in {RightSchema, Without(RightSchema, URL_PROPERTY)},
                           p \in RequiredProperties \ {URL_PROPERTY}}

-----------------------------------------------------------------------------
(* Specifications                                                          *)

\* The query strings of the URLs normalized: up to MaxQuery pairs of a key and a
\* value (0: blank), in any order.
QueryPairs == {<<K_page, 2>>, <<K_bbsConfigFk, BBS_CONFIG_FK>>, <<K_bbsConfigFk, 0>>,
               <<K_option, 7>>, <<K_introPkId, 9>>}

UrlInputs ==
    [form   : {"abs"}, scheme : {"https", "http"}, host : {BaseHost, "example.org"},
     detail : {0, 1}, query  : Seqs(QueryPairs, MaxQuery)]
    \cup [form   : {"protorel"}, scheme : {""}, host : {BaseHost, "example.org"},
          detail : {0, 1}, query  : Seqs(QueryPairs, MaxQuery)]
    \cup [form   : {"rootrel", "relative", "placeholder", "badscheme", "none"},
          scheme : {""}, host : {""}, detail : {0, 1},
          query  : Seqs(QueryPairs, MaxQuery)]

\* The texts parsed: up to MaxParts of these pieces written one after another.
TextParts ==
    {<<"2", "0", "2", "4", ".", "0", "3", ".", "0", "5">>,
     <<"2", "0", "2", "4", "-", "0", "3", "-", "0", "5">>,
     <<"2", "0", "2", "3", ".", "1", "2", "-", "3", "1">>,
     <<"2", "0", "2", "4", "/", "0", "3", "/", "0", "5">>,
     <<"2", "4", ".", "0", "3", ".", "0", "5">>,
     <<"2", "0", "2", "4", ".", "3", ".", "0", "5">>,
     <<"0", "9", ":", "3", "0">>,
     <<"2", "3", ":", "5", "9", ":", "0", "7">>,
     <<"9", ":", "3", "0">>,
     <<":", "1", "5">>,
     <<" ">>,
     <<"1">>,
     <<"T">>}

RECURSIVE Concat(_)
Concat(pieces) == IF pieces = <<>> THEN <<>> ELSE Head(pieces) \o Concat(Tail(pieces))

DateTexts == {Concat(pieces) : pieces \in Seqs(TextParts, MaxParts)}

RetryIdle ==
    /\ attempt = 0
    /\ backoff = 1
    /\ responses = <<>>
    /\ sleeps = <<>>
    /\ result = "pending"

TextIdle ==
    /\ url_arg = NoUrl
    /\ normalizations = <<>>
    /\ text_arg = <<>>
    /\ parse_result = <<"pending">>

CrawlStart ==
    /\ page_number = 1
    /\ requested = <<>>
    /\ page_items = <<>>
    /\ cursor = 1
    /\ items = <<>>
    /\ seen = {}
    /\ crawl_end = "none"
    /\ browser = NoBrowser

MainStart ==
    /\ run = 1
    /\ database = NoDatabase
    /\ author_options = {}
    /\ has_views_property = FALSE
    /\ idx = 1
    /\ page_id = 0
    /\ current_top_urls = {}
    /\ current_top_dates = {}
    /\ top_pages = <<>>
    /\ tidx = 1
    /\ sent = <<>>
    /\ schema0 = schema
    /\ docs0 = docs
    /\ prev_items = <<>>
    /\ calls = <<>>
    /\ failure = NoFailure

\* A run of main: the crawl, the reconciliation, the retirement, and the same again.
Init ==
    /\ \/ /\ mode \in {"http", "browser"}
          /\ listing \in MainListings
          /\ pc = "fetch"
       \/ /\ mode = "file"
          /\ listing \in MainFiles
          /\ pc = "file"
    /\ \/ /\ schema = RightSchema
          /\ docs \in Seqs(DocPool, MaxInitDocs)
       \/ /\ schema \in (AcceptedSchemas \cup RejectedSchemas) \ {RightSchema}
          /\ docs \in {<<>>, <<DocA>>}
    /\ options = {Option("A1", 1)}
    /\ CrawlStart
    /\ MainStart
    /\ RetryIdle
    /\ TextIdle

Next ==
    \/ ReadFile
    \/ FetchPage
    \/ DetailRow
    \/ EndPage
    \/ CheckItems
    \/ FetchDatabase
    \/ EnsureUrlProperty
    \/ ValidateRequired
    \/ ItemBegin
    \/ FindExisting
    \/ WritePage
    \/ IterTopPages
    \/ RetireStep
    \/ RetireDone
    \/ StartRun

Spec == Init /\ [][Next]_vars

\* The crawl alone, over every listing of up to MaxPages pages.
InitCrawl ==
    /\ mode \in {"http", "browser"}
    /\ listing \in CrawlListings
    /\ pc = "fetch"
    /\ schema = RightSchema
    /\ options = {}
    /\ docs = <<>>
    /\ CrawlStart
    /\ MainStart
    /\ RetryIdle
    /\ TextIdle

NextCrawl ==
    \/ FetchPage
    \/ DetailRow
    \/ EndPage

SpecCrawl == InitCrawl /\ [][NextCrawl]_vars

\* One call of notion_request, over every sequence of responses.
InitRetry ==
    /\ mode = "http"
    /\ listing = <<>>
    /\ pc = "request"
    /\ schema = RightSchema
    /\ options = {}
    /\ docs = <<>>
    /\ CrawlStart
    /\ MainStart
    /\ RetryIdle
    /\ TextIdle

NextRetry == NotionAttempt

SpecRetry == InitRetry /\ [][NextRetry]_vars

\* normalize_detail_url on its own, over the URLs of UrlInputs.
InitNormalize ==
    /\ mode = "http"
    /\ listing = <<>>
    /\ pc = "normalize"
    /\ schema = RightSchema
    /\ options = {}
    /\ docs = <<>>
    /\ CrawlStart
    /\ MainStart
    /\ RetryIdle
    /\ url_arg \in UrlInputs
    /\ normalizations = <<>>
    /\ text_arg = <<>>
    /\ parse_result = <<"pending">>

NextNormalize == Normalize

SpecNormalize == InitNormalize /\ [][NextNormalize]_vars

\* find_existing_page on its own: one record of ResolveRecords looked up in a
\* mirror of up to MaxInitDocs pages.
InitResolve ==
    /\ mode = "file"
    /\ listing = <<>>
    /\ pc = "find"
    /\ schema = RightSchema
    /\ options = {}
    /\ docs \in Seqs(ResolvePool, MaxInitDocs)
    /\ page_number = 1
    /\ requested = <<>>
    /\ page_items = <<>>
    /\ cursor = 1
    /\ \E item \in ResolveRecords : items = <<item>>
    /\ seen = {}
    /\ crawl_end = "file"
    /\ browser = NoBrowser
    /\ MainStart
    /\ RetryIdle
    /\ TextIdle

NextResolve == FindExisting

SpecResolve == InitResolve /\ [][NextResolve]_vars

\* parse_datetime on its own, over the texts of DateTexts.
InitParse ==
    /\ mode = "http"
    /\ listing = <<>>
    /\ pc = "parse"
    /\ schema = RightSchema
    /\ options = {}
    /\ docs = <<>>
    /\ CrawlStart
    /\ MainStart
    /\ RetryIdle
    /\ url_arg = NoUrl
    /\ normalizations = <<>>
    /\ text_arg \in DateTexts
    /\ parse_result = <<"pending">>

NextParse == ParseDatetime

SpecParse == InitParse /\ [][NextParse]_vars

-----------------------------------------------------------------------------
(* Properties                                                              *)

\* The identity tiers of a record, in their order: the pages with its URL, the
\* pages with its title and date, the pages with its title; a tier whose key the
\* record lacks has no result.
TierResults(pages, item) ==
    << IF item.url # NoUrl THEN query_by_url(pages, item.url) ELSE {},
       IF item.title # "" /\ item.date # NoDate
       THEN query_by_title_date(pages, item.title, item.date) ELSE {},
       IF item.title # "" THEN query_by_title(pages, item.title) ELSE {} >>

\* The result of the first tier that returns any result ({} when none does).
FirstResult(pages, item) ==
    LET tiers == TierResults(pages, item)
    IN  IF tiers[1] # {} THEN tiers[1]
        ELSE IF tiers[2] # {} THEN tiers[2]
        ELSE tiers[3]

IsAmbiguous(pages, item) == Cardinality(FirstResult(pages, item)) > 1

\* C1: when the identity of a record is ambiguous (the first tier that returns any
\* result returns more than one page), the write step of that record issues neither
\* a create nor an update, and the run goes on with the next record.
C1_AmbiguousRecordSkipped ==
    [][(pc = "write" /\ IsAmbiguous(docs, items[idx]))
          => (sent' = sent /\ docs' = docs /\ pc' \in {"item", "retire_query"})]_vars

\* C2: a second run over the same record set, after a completed run, issues no
\* create.
C2_NoCreateInSecondRun ==
    (run > 1 /\ pc \notin {"fetch", "rows", "file", "crawled"} /\ items = prev_items)
        => \A i \in 1..Len(sent) : sent[i].op # "create"

\* A TOP row of the source is the record of a page of the database: the page's
\* URL is the row's detail URL, or the page has the row's title and a date on the
\* day of the row's listing date or detail timestamp.
RowIsPage(row, page) ==
    /\ row.top
    /\ \/ /\ extract_url(page) # NoUrl
          /\ extract_url(page) \in {normalize_detail_url(row.click_url),
                                    extract_detail_url_from_row_html(row)}
       \/ /\ page.title = row.title
          /\ page.date # NoDate
          /\ normalize_date_key(page.date)
                \in {normalize_date_key(row.date), normalize_date_key(row.written_at)}

\* The page's record is a TOP row of a listing page that was not fetched.
OnUnfetchedPage(page) ==
    \E n \in 1..Len(listing) :
        /\ n >= page_number
        /\ \E r \in 1..Len(listing[n]) : RowIsPage(listing[n][r], page)

\* C3: when a listing page load fails after an earlier page was extracted, the
\* pages of the database whose records are on the pages not fetched keep their TOP
\* flag in that run.
C3_UnfetchedStayPinned ==
    (crawl_end = "fetch_failed" /\ page_number > 1)
        => \A d \in 1..Len(docs0) :
               (docs0[d].top /\ OnUnfetchedPage(docs0[d])) => docs[d].top

\* The page is observed in this run: its canonical URL is in the observed URL set,
\* or its title and day key are in the observed map.
ObservedByUrl(page) == normalize_detail_url(page.url) \in current_top_urls

ObservedByTitleDay(page) ==
    <<page.title, normalize_date_key(page.date)>> \in current_top_dates

RetireCallFor(id) ==
    \E i \in 1..Len(sent) : sent[i].op = "retire" /\ sent[i].doc = id

\* C4: in the retirement pass a page marked TOP has its flag cleared (and a
\* retirement call sent) if and only if its title can be extracted and neither its
\* canonical URL is in the observed URL set nor its (title, day key) in the observed
\* map; a page without a title is left as it is.
C4_RetirementRule ==
    \A k \in 1..Len(top_pages) :
        k < tidx =>
            LET id      == top_pages[k]
                page    == docs[id]
                retired == /\ page.title # ""
                           /\ ~ObservedByUrl(page)
                           /\ ~ObservedByTitleDay(page)
            IN  /\ page.top = ~retired
                /\ RetireCallFor(id) = retired

\* C4, the case of the claim: pages A (url u1) and B (title, date) are TOP, the run
\* observes only A; B is cleared, A stays TOP.
C4_Witness ==
    /\ pc = "done"
    /\ run = 1
    /\ docs0 = <<DocA, DocB>>
    /\ Len(items) = 1
    /\ items[1].url = build_detail_url(1)
    /\ Len(docs) = 2
    /\ docs[1].top
    /\ ~docs[2].top

TypeIn(s, p) == IF p \in DOMAIN s THEN s[p] ELSE "missing"

PostValidation == {"item", "find", "write", "retire_query", "retire", "done"}

RateLimited(r) == r.code = 429

RetryableFailure(r) == r.code \in {0, 429, 500, 502, 503, 504}

\* C6: one call sends at most four requests, none after a success and each one
\* after a retryable failure; k <= 3 rate-limited responses leave the call retrying,
\* and a success after them ends it with k + 1 requests, k retries and the result;
\* four retryable failures end it fatally with four requests.
C6_RetryCount ==
    /\ Len(responses) <= 4
    /\ \A i \in 1..(Len(responses) - 1) : RetryableFailure(responses[i])
    /\ \A k \in 0..3 :
          (Len(responses) >= k /\ \A i \in 1..k : RateLimited(responses[i]))
              => /\ Len(responses) = k => (result = "pending" /\ Len(sleeps) = k)
                 /\ (Len(responses) = k + 1 /\ responses[k + 1].code = 200)
                       => (result = "ok" /\ Len(sleeps) = k)
    /\ (Len(responses) >= 4 /\ \A i \in 1..4 : RetryableFailure(responses[i]))
          => (result = "fatal" /\ Len(responses) = 4)

\* C6: three rate-limited responses, then a success.
C6_Witness ==
    /\ result = "ok"
    /\ Len(responses) = 4
    /\ \A i \in 1..3 : RateLimited(responses[i])
    /\ Len(sleeps) = 3

\* Page n is the first with a non-TOP record, the pages before it each give
\* records, all TOP.
StopsAt(n) ==
    /\ n \in 1..Len(listing)
    /\ \A m \in 1..(n - 1) :
          /\ extract_page(listing[m]) # <<>>
          /\ \A i \in 1..Len(extract_page(listing[m])) : extract_page(listing[m])[i].item.top
    /\ \E i \in 1..Len(extract_page(listing[n])) : ~extract_page(listing[n])[i].item.top

\* C7: the pages are requested in the order 1, 2, 3, ...; when page n is the first
\* with a non-TOP record and the pages before it are non-empty and all TOP, no page
\* after n is requested, and a crawl whose page loads all succeed requests exactly
\* the pages 1..n.
C7_PaginationStops ==
    /\ \A i \in 1..Len(requested) : requested[i] = i
    /\ \A n \in 1..Len(listing) :
          StopsAt(n) =>
              /\ Len(requested) <= n
              /\ (pc = "crawled" /\ crawl_end # "fetch_failed") => Len(requested) = n

\* C7: the non-TOP record is on page 3 and the pages 1, 2, 3 were requested.
C7_Witness ==
    /\ pc = "crawled"
    /\ StopsAt(3)
    /\ requested = <<1, 2, 3>>
    /\ crawl_end = "non_top"

\* C8: a page load that fails, or a page that gives no record, ends the crawl loop
\* at once: the function returns, with the records collected so far, and the page
\* just requested is the last one requested.
C8_FailureEndsPagination ==
    /\ [][(pc = "fetch" /\ pc' # pc
             /\ (crawl_end' = "fetch_failed" \/ extract_page(PageRows(page_number)) = <<>>))
            => /\ pc' = "crawled"
               /\ items' = items
               /\ requested' = Append(requested, page_number)]_vars
    /\ [](pc = "crawled" =>
             /\ requested # <<>>
             /\ \A i \in 1..Len(requested) : requested[i] <= page_number)
    /\ [][pc = "crawled" => (requested' = requested /\ items' = items)]_vars

\* C8: the load of page 2 failed and the records of page 1 are returned.
C8_Witness ==
    /\ pc = "crawled"
    /\ crawl_end = "fetch_failed"
    /\ requested = <<1, 2>>
    /\ items # <<>>

\* The page the tiers select: the one page of the first tier that returns any
\* result, 0 when that tier returns several or no tier returns any.
Resolved(pages, item) ==
    IF Cardinality(FirstResult(pages, item)) = 1
    THEN CHOOSE i \in FirstResult(pages, item) : TRUE
    ELSE 0

\* C9: find_existing_page returns the single match of the first tier (URL, then
\* title and date, then title) that returns any result, and no page when that tier
\* returns several or no tier returns any.
C9_TierResolution ==
    pc = "write" => page_id = Resolved(docs, items[idx])

\* C9: two pages share the title and have no date; the record has only its title,
\* and no page is selected.
C9_Witness ==
    /\ pc = "write"
    /\ items[idx].url = NoUrl
    /\ items[idx].date = NoDate
    /\ Cardinality(query_by_title(docs, items[idx].title)) = 2
    /\ \A i \in query_by_title(docs, items[idx].title) : docs[i].date = NoDate
    /\ page_id = 0

PageWritesFor(i) ==
    {k \in 1..Len(sent) : sent[k].op \in {"create", "update"} /\ sent[k].item = i}

\* C10: the write step of a record with no match in any tier issues one create and
\* nothing else; the write step of a record resolved to one page issues one update
\* of that page and nothing else; no record gets a second create or update.
C10_CreateOrUpdate ==
    /\ [](\A i \in 1..Len(items) : Cardinality(PageWritesFor(i)) <= 1)
    /\ [][pc = "write" =>
            LET item   == items[idx]
                fields == build_properties(item, has_views_property).fields
            IN  /\ FirstResult(docs, item) = {}
                      => sent' = Append(sent, Call("create", idx, 0, fields))
                /\ Resolved(docs, item) # 0
                      => sent' = Append(sent, Call("update", idx,
                                                   Resolved(docs, item), fields))]_vars

\* C10: a run that has created one page and updated another.
C10_Witness ==
    /\ \E i \in 1..Len(sent) : sent[i].op = "create"
    /\ \E i \in 1..Len(sent) : sent[i].op = "update"

CrawlPhase == {"fetch", "rows", "file", "crawled", "crashed"}

\* C11: a run whose crawl gave no record ends in the fatal error with no call of
\* any kind issued to the mirror; the retirement pass runs only with a non-empty
\* observed map.
C11_EmptyExtractionFatal ==
    /\ (items = <<>> /\ pc \notin CrawlPhase)
          => (pc = "fatal" /\ calls = <<>> /\ sent = <<>> /\ failure = NoFailure)
    /\ pc \in {"retire_query", "retire", "done"} => current_top_dates # {}

\* C11: the crawl requested a page, got no record, and the run ended fatally.
C11_Witness ==
    /\ pc = "fatal"
    /\ requested # <<>>
    /\ items = <<>>
    /\ calls = <<>>

RetryableCode(code) == code \in {0, 429, 500, 502, 503, 504}

\* C12: a mirror call that raises (a status that is not retryable, or the fourth
\* retryable failure) ends the run: the failed call is the last call of the run's
\* log, and afterwards no call is issued, no write is sent and no page changes; a
\* call answered with a status that is not retryable sent one request.
C12_FatalCallAborts ==
    /\ [](failure # NoFailure =>
            LET rs == failure.responses
            IN  /\ pc = "fatal"
                /\ calls # <<>> /\ calls[Len(calls)] = failure.op
                /\ rs # <<>> /\ rs[Len(rs)] # 200
                /\ \A i \in 1..(Len(rs) - 1) : RetryableCode(rs[i])
                /\ ~RetryableCode(rs[1]) => Len(rs) = 1
                /\ RetryableCode(rs[Len(rs)]) => Len(rs) = max_retries + 1)
    /\ [][failure # NoFailure =>
            (calls' = calls /\ sent' = sent /\ docs' = docs /\ schema' = schema
             /\ options' = options)]_vars

\* C12: the create of the first of two records is answered 429 and then 404; the
\* run is over with the second record untouched.
C12_Witness ==
    /\ pc = "fatal"
    /\ failure = [op |-> "create_page", responses |-> <<429, 404>>]
    /\ idx = 1 /\ Len(items) > 1
    /\ sent[Len(sent)].op = "create"

\* The backoff value after k retries of one call.
BackoffAfter(k) == <<1, 2, 4, 8>>[k + 1]

\* C13: the i-th sleep of a call is the Retry-After delay of the i-th response when
\* it carries one, otherwise the backoff value after i - 1 retries; the backoff
\* starts at 1, doubles with every retry and stays at most 8; without any
\* Retry-After the sleeps of a call are 1, 2, 4.
C13_BackoffSleeps ==
    /\ Len(sleeps) <= max_retries
    /\ Len(sleeps) <= Len(responses)
    /\ backoff = BackoffAfter(Len(sleeps))
    /\ backoff <= 8
    /\ \A i \in 1..Len(sleeps) :
          sleeps[i] = IF responses[i].retry_after >= 0
                      THEN responses[i].retry_after
                      ELSE BackoffAfter(i - 1)
    /\ (\A i \in 1..Len(sleeps) : responses[i].retry_after < 0)
          => sleeps = SubSeq(<<1, 2, 4>>, 1, Len(sleeps))

\* C13: the first response carries Retry-After: 5, the next two carry none.
C13_Witness ==
    /\ Len(sleeps) = 3
    /\ responses[1].retry_after = 5
    /\ sleeps = <<5, 2, 4>>

OptionNames(opts) == {o.name : o \in opts}

\* C14: the turn of a record whose author is not a choice of the author property
\* sends, before the record is written, one schema update whose options are every
\* named choice of the property, name and id unchanged, and the author; the turn
\* of a record without author or with an author that is a choice (one added
\* earlier in the run included) sends none; no choice of the property is ever
\* removed or renamed, and when the record is written its author is a choice.
C14_AuthorOptionAdded ==
    /\ [][pc = "item" =>
            LET author == items[idx].author
            IN  IF author # "" /\ author \notin OptionNames(options)
                THEN /\ Len(sent') = Len(sent) + 1
                     /\ sent'[Len(sent')].op = "schema"
                     /\ sent'[Len(sent')].item = idx
                     /\ sent'[Len(sent')].fields = {AUTHOR_PROPERTY}
                     /\ sent'[Len(sent')].options
                           = {o \in options : o.name # ""} \cup {Option(author, 0)}
                ELSE sent' = sent]_vars
    /\ [][\A o \in options : o \in options']_vars
    /\ [](pc = "write" =>
             (items[idx].author = "" \/ items[idx].author \in OptionNames(options)))

\* C14: the first record added its author as a choice, the second record has the
\* same author and is written without another schema update.
C14_Witness ==
    /\ pc = "write"
    /\ idx = 2
    /\ items[1].author = items[2].author
    /\ Len(sent) = 2
    /\ sent[1].op = "schema" /\ sent[1].options = {Option("A1", 1), Option("A2", 0)}
    /\ sent[2].op = "create"
    /\ options = {Option("A1", 1), Option("A2", 2)}

\* The record has a value for the property.
HasValue(item, property_name) ==
    CASE property_name = DATE_PROPERTY   -> item.date # NoDate
      [] property_name = AUTHOR_PROPERTY -> item.author # ""
      [] property_name = URL_PROPERTY    -> item.url # NoUrl
      [] property_name = VIEWS_PROPERTY  ->
            item.views # -1 /\ TypeIn(schema, VIEWS_PROPERTY) = "number"
      [] OTHER -> TRUE

\* C15: the properties of every create and update are the title and the TOP flag,
\* the date, author and URL the record has a value for, and the views when the
\* record has a count and the mirror a numeric views property; nothing else, so a
\* property the record has no value for is not written.
C15_PayloadFields ==
    \A k \in 1..Len(sent) :
        sent[k].op \in {"create", "update"} =>
            /\ {TITLE_PROPERTY, TOP_PROPERTY} \subseteq sent[k].fields
            /\ \A p \in {DATE_PROPERTY, AUTHOR_PROPERTY, URL_PROPERTY, VIEWS_PROPERTY} :
                  (p \in sent[k].fields) = HasValue(items[sent[k].item], p)
            /\ sent[k].fields \subseteq
                  {TITLE_PROPERTY, TOP_PROPERTY, DATE_PROPERTY, AUTHOR_PROPERTY,
                   URL_PROPERTY, VIEWS_PROPERTY}

\* C15: a record without date, author and URL, with a view count, is written to a
\* mirror whose views property is not numeric: with its title and TOP flag only.
C15_Witness ==
    \E k \in 1..Len(sent) :
        /\ sent[k].op \in {"create", "update"}
        /\ items[sent[k].item].date = NoDate
        /\ items[sent[k].item].views # -1
        /\ TypeIn(schema, VIEWS_PROPERTY) = "rich_text"
        /\ sent[k].fields = {TITLE_PROPERTY, TOP_PROPERTY}

OtherMode(m) == IF m = "browser" THEN "http" ELSE "browser"

\* C16: a crawl that returns the records its fetcher gives when no request fails
\* returns the records the other fetcher gives for the same listing when no
\* request fails.
C16_SameRecordsInBothModes ==
    (pc = "crawled" /\ items = crawl_result(mode, listing))
        => items = crawl_result(OtherMode(mode), listing)

FirstDateAt(i) ==
    /\ i \in 1..Len(text_arg)
    /\ date_match_at(text_arg, i)
    /\ \A j \in 1..(i - 1) : ~date_match_at(text_arg, j)

\* The text has an hh:mm time starting at position i and none before it.
FirstTimeAt(i) ==
    /\ i \in 1..Len(text_arg)
    /\ time_match_at(text_arg, i)
    /\ \A j \in 1..(i - 1) : ~time_match_at(text_arg, j)

TimeOfDay ==
    IF \E i \in 1..Len(text_arg) : time_match_at(text_arg, i)
    THEN LET i == CHOOSE i \in 1..Len(text_arg) : FirstTimeAt(i)
         IN  SubSeq(text_arg, i, i + 4) \o <<":">>
             \o (IF second_match_at(text_arg, i) THEN SubSeq(text_arg, i + 6, i + 7)
                 ELSE <<"0", "0">>)
    ELSE <<"0", "0", ":", "0", "0", ":", "0", "0">>

\* C18: parse_datetime returns None exactly when the text holds no YYYY[.-]MM[.-]DD
\* date; otherwise it returns YYYY-MM-DDThh:mm:ss+09:00 from the first date and the
\* first hh:mm[:ss] of the text, seconds 00 when the time has none and 00:00:00
\* when the text has no time; "2024.03.05 09:30" gives 2024-03-05T09:30:00+09:00
\* and "2024-03-05" gives 2024-03-05T00:00:00+09:00.
C18_ParseDatetime ==
    (pc = "parse" /\ parse_result # <<"pending">>) =>
        /\ parse_result = NoTimestamp
               <=> ~\E i \in 1..Len(text_arg) : date_match_at(text_arg, i)
        /\ \A i \in 1..Len(text_arg) :
               FirstDateAt(i) =>
                   parse_result =
                       SubSeq(text_arg, i, i + 3) \o <<"-">>
                       \o SubSeq(text_arg, i + 5, i + 6) \o <<"-">>
                       \o SubSeq(text_arg, i + 8, i + 9) \o <<"T">>
                       \o TimeOfDay \o <<"+", "0", "9", ":", "0", "0">>
        /\ text_arg = <<"2", "0", "2", "4", ".", "0", "3", ".", "0", "5", " ", "0", "9", ":", "3", "0">>
               => parse_result = <<"2", "0", "2", "4", "-", "0", "3", "-", "0", "5", "T", "0", "9", ":", "3", "0", ":", "0", "0", "+", "0", "9", ":", "0", "0">>
        /\ text_arg = <<"2", "0", "2", "4", "-", "0", "3", "-", "0", "5">>
               => parse_result = <<"2", "0", "2", "4", "-", "0", "3", "-", "0", "5", "T", "0", "0", ":", "0", "0", ":", "0", "0", "+", "0", "9", ":", "0", "0">>

\* C18: "2024.03.05 09:30" was parsed to 2024-03-05T09:30:00+09:00.
C18_Witness ==
    /\ pc = "parse"
    /\ text_arg = <<"2", "0", "2", "4", ".", "0", "3", ".", "0", "5", " ", "0", "9", ":", "3", "0">>
    /\ parse_result = <<"2", "0", "2", "4", "-", "0", "3", "-", "0", "5", "T", "0", "9", ":", "3", "0", ":", "0", "0", "+", "0", "9", ":", "0", "0">>


\* C19: in the interactive fetcher, between the turns of `for item in top_items`
\* (fetch_detail_for_row has returned, or the page has just been loaded) the
\* browser shows the listing page of the current page number.
C19_BackOnCurrentListing ==
    (mode = "browser" /\ pc = "rows") => browser.shown = ListPage(page_number)


\* C20: no timeout of a network-bound step of the interactive fetcher escapes
\* crawl_top_items: the crawl never ends by an uncaught error.
C20_NoTimeoutEscapes ==
    mode = "browser" => pc # "crashed"


\* A row the extraction has to drop: fewer than five cells, no title, a views cell
\* without digit, or a date cell that does not parse.
MalformedRow(row) ==
    \/ row.ncells < 5
    \/ row.title = ""
    \/ row.views = -1
    \/ row.date = NoDate

\* C21: in both extraction paths the records of a page are those of its rows that
\* are not malformed, so every record extracted has a title, a date and a view
\* count.
C21_MalformedRowsDropped ==
    pc = "rows" =>
        /\ \A i \in 1..Len(page_items) :
              /\ ~MalformedRow(page_items[i].row)
              /\ page_items[i].item.title # ""
              /\ page_items[i].item.date # NoDate
              /\ page_items[i].item.views >= 0
        /\ Len(page_items)
               = Len(SelectSeq(PageRows(page_number), LAMBDA row : ~MalformedRow(row)))


\* C22: at the start of the retirement pass every observed URL and every observed
\* (title, day key) comes from a record of this run whose pinned flag is true.
C22_ObservedOnlyPinned ==
    pc = "retire_query" =>
        /\ \A u \in current_top_urls :
              \E i \in 1..Len(items) : items[i].top /\ items[i].url = u
        /\ \A td \in current_top_dates :
              \E i \in 1..Len(items) :
                  /\ items[i].top
                  /\ td = <<items[i].title, normalize_date_key(items[i].date)>>


\* Every record of the run has a canonical URL and no two have the same.
DistinctUrls ==
    /\ \A i \in 1..Len(items) : items[i].url # NoUrl
    /\ \A i, j \in 1..Len(items) : items[i].url = items[j].url => i = j

\* C23: a completed first run over records with pairwise distinct canonical URLs,
\* on a mirror that was empty, leaves one document per record: as many documents
\* as records, and no update of a document written for another record.
C23_OneDocumentPerRecord ==
    (pc = "done" /\ run = 1 /\ docs0 = <<>> /\ DistinctUrls) =>
        /\ Len(docs) = Len(items)
        /\ \A k \in 1..Len(sent) : sent[k].op # "update"


\* The pages with the title of the record being looked up and a date on its day.
SameTitleAndDay ==
    {i \in 1..Len(docs) :
        /\ docs[i].title = items[idx].title
        /\ docs[i].date # NoDate
        /\ normalize_date_key(docs[i].date) = normalize_date_key(items[idx].date)}

\* C24: a record with a title and a date that no page matches by URL, looked up in
\* a mirror with exactly one page of its title on its day, resolves to that page,
\* whatever the times of day.
C24_TitleAndDayResolves ==
    (pc = "write"
        /\ items[idx].title # "" /\ items[idx].date # NoDate
        /\ (items[idx].url = NoUrl \/ query_by_url(docs, items[idx].url) = {})
        /\ Cardinality(SameTitleAndDay) = 1)
    => page_id = TheOne(SameTitleAndDay)


\* The rate-limited status and the server-side statuses.
RateLimitedOrServerError(code) == code = 429 \/ code \in 500..599

\* C25: a response with status 429 or 5xx received while retries remain does not
\* end the call as fatal.
C25_ServerErrorsRetried ==
    (result = "fatal" /\ Len(responses) <= max_retries)
        => ~RateLimitedOrServerError(responses[Len(responses)].code)


RecordWrite(call) == call.op \in {"create", "update"}

Retirements == SelectSeq(sent, LAMBDA call : call.op = "retire")

\* C26: in a run no record is created or updated after a retirement request, the
\* retirement pass starts only when every record has been processed, and a run that
\* completes has made one pass: one query for the pinned pages after the last
\* record write, followed by the retirement requests only.
C26_RetirementAfterRecords ==
    /\ \A j, k \in 1..Len(sent) :
          (j < k /\ sent[j].op = "retire") => ~RecordWrite(sent[k])
    /\ pc \in {"retire_query", "retire", "done"} => idx = Len(items) + 1
    /\ pc = "done" =>
          LET r == Len(Retirements)
          IN  /\ calls[Len(calls) - r] = "query_database"
              /\ \A k \in (Len(calls) - r + 1)..Len(calls) : calls[k] = "update_page"
              /\ \A k \in (Len(sent) - r + 1)..Len(sent) : sent[k].op = "retire"
              /\ Len(SelectSeq(sent, RecordWrite)) = Len(items)

\* C26: a run of two records completed with a retirement after their writes.
C26_Witness ==
    /\ pc = "done"
    /\ Len(items) = 2
    /\ Len(Retirements) >= 1
    /\ RecordWrite(sent[Len(sent) - Len(Retirements)])


WrittenDoc(k) ==
    IF sent[k].op = "update" THEN sent[k].doc
    ELSE Len(docs0) + Len(SelectSeq(SubSeq(sent, 1, k), LAMBDA call : call.op = "create"))

\* The k-th request is the last write of a record to its page in this run, and the
\* record is pinned.
LastPinnedWrite(k) ==
    /\ RecordWrite(sent[k])
    /\ items[sent[k].item].top
    /\ \A j \in (k + 1)..Len(sent) :
          RecordWrite(sent[j]) => WrittenDoc(j) # WrittenDoc(k)

\* C28: during and after the retirement pass, every page last written in this run
\* from a pinned record is marked pinned.
C28_RetirementKeepsWrites ==
    pc \in {"retire", "done"} =>
        \A k \in 1..Len(sent) : LastPinnedWrite(k) => docs[WrittenDoc(k)].top

\* C28 for the records that have a date or a URL.
C28_DatedWritesKept ==
    pc \in {"retire", "done"} =>
        \A k \in 1..Len(sent) :
            (LastPinnedWrite(k)
                /\ (items[sent[k].item].date # NoDate \/ items[sent[k].item].url # NoUrl))
            => docs[WrittenDoc(k)].top


\* The pages of the crawl whose items were processed: all requested pages but a
\* last one that failed to load or gave no item.
ProcessedPages ==
    {n \in 1..Len(requested) : n < Len(requested) \/ crawl_end = "non_top"}

\* The record stands for the extracted row: it carries the row's title, author and
\* views, which the detail lookup leaves as extracted, or it carries the canonical
\* URL of the row's detail page (the row of a notice already in the list).
Represents(record, entry) ==
    /\ record.top
    /\ \/ /\ record.title = entry.item.title
          /\ record.author = entry.item.author
          /\ record.views = entry.item.views
       \/ /\ record.url # NoUrl
          /\ record.url = normalize_detail_url(entry.row.click_url)

\* C29: the list a crawl returns holds pinned records only, no two with the same
\* dedup key, one for every key seen, and every pinned row extracted from a
\* processed page, the last one included, has its record in the list.
C29_CrawlResult ==
    (pc = "crawled" /\ mode \in {"http", "browser"}) =>
        /\ \A i \in 1..Len(items) : items[i].top
        /\ \A i, j \in 1..Len(items) :
              DedupKey(items[i]) = DedupKey(items[j]) => i = j
        /\ {DedupKey(items[i]) : i \in 1..Len(items)} = seen
        /\ \A n \in ProcessedPages :
              LET entries == extract_page(PageRows(n))
              IN  \A k \in 1..Len(entries) :
                      entries[k].item.top =>
                          \E i \in 1..Len(items) : Represents(items[i], entries[k])

\* C29 for the HTTP fetcher and for rows with a link: the part of the crawl that
\* never clicks a row of the page the browser shows.
C29_LinkedRowsRepresented ==
    (pc = "crawled" /\ mode \in {"http", "browser"}) =>
        \A n \in ProcessedPages :
            LET entries == extract_page(PageRows(n))
            IN  \A k \in 1..Len(entries) :
                    (entries[k].item.top
                        /\ (mode = "http" \/ list_row_detail_url(entries[k].row) # NoUrl)) =>
                        \E i \in 1..Len(items) : Represents(items[i], entries[k])

====
